---- MODULE Spec2Model ----
(***************************************************************************)
(* Model of src/bot.py: the two commands of the Discord bot.                *)
(*                                                                          *)
(*   hello_command (prefix command, lines 77-106): sends a placeholder,     *)
(*   refreshes the DynamoDB table metadata, reads item_count and edits the  *)
(*   placeholder with the reply, or with a warning-marked error.            *)
(*                                                                          *)
(*   ai_command (hybrid command, lines 110-157): defers, opens the typing   *)
(*   context, scans the whole table page by page, builds a prompt, calls    *)
(*   the generator, truncates the answer and sends it, or sends a           *)
(*   warning-marked error.                                                  *)
(*                                                                          *)
(* Both are coroutines on one asyncio event loop.  A coroutine gives up the *)
(* loop only at an `await`; table.reload(), table.scan() and                *)
(* model.generate_content() are plain blocking calls.  `running` names the  *)
(* command that holds the loop between two awaits.                          *)
(*                                                                          *)
(* Texts are sequences of Unicode code points, as Python's len() and slices *)
(* count them.                                                              *)
(***************************************************************************)
EXTENDS Integers, Sequences, FiniteSets, TLC

\* ------------------------------------------------------------------ bounds
MaxPages == 2       \* responses the store needs for one full scan, at most
MaxCount == 1       \* largest approximate item count the store reports
MaxExtra == 1       \* formatted texts are up to this much longer than limit + marker
MaxApply == 2       \* repeated applications of the formatting step

\* ------------------------------------------------------- program constants
ChannelLimit == 2000    \* bot.py:148  len(reply_text) > 2000
KeepLen == 1990         \* bot.py:150  reply_text[:1990]

\* "\n...(内容过长截断)"  (bot.py:150)
TruncationMarker ==
    <<10, 46, 46, 46, 40, 20869, 23481, 36807, 38271, 25130, 26029, 41>>

\* "⚠️ AI 处理出错: "  (bot.py:157)
AiErrorPrefix ==
    <<9888, 65039, 32, 65, 73, 32, 22788, 29702, 20986, 38169, 58, 32>>

\* "⚠️ 查询数据库时发生错误: "  (bot.py:106)
HelloErrorPrefix ==
    <<9888, 65039, 32, 26597, 35810, 25968, 25454, 24211, 26102, 21457,
      29983, 38169, 35823, 58, 32>>

\* "正在统计 DynamoDB 数据，请稍候..."  (bot.py:86)
PlaceholderText ==
    <<27491, 22312, 32479, 35745, 32, 68, 121, 110, 97, 109, 111, 68, 66, 32,
      25968, 25454, 65292, 35831, 31245, 20505, 46, 46, 46>>

\* The three literal pieces of the reply template and its closing backquote
\* (bot.py:96-100).
HelloPart1 == <<72, 101, 108, 108, 111, 33, 32, 128075, 32, 96>>
HelloPart2 ==
    <<96, 10, 128338, 32, 24403, 21069, 31995, 32479, 26102, 38388, 58, 32, 96>>
HelloPart3 ==
    <<96, 10, 128202, 32, 25968, 25454, 24211, 22823, 32422, 30340, 24635,
      34892, 25968, 58, 32, 96>>
HelloPart4 == <<96>>

\* The warning marker every error message starts with: U+26A0 U+FE0F.
WarningMarker == <<9888, 65039>>

\* ------------------------------------------------------------ text helpers
IsPrefix(p, s) == Len(p) <= Len(s) /\ SubSeq(s, 1, Len(p)) = p

IsSuffix(p, s) ==
    Len(p) <= Len(s) /\ SubSeq(s, Len(s) - Len(p) + 1, Len(s)) = p

\* Python's s[:n] for n >= 0.
Take(s, n) == SubSeq(s, 1, IF n < Len(s) THEN n ELSE Len(s))

\* str(n) of a non-negative integer: its decimal digits.
RECURSIVE Digits(_)
Digits(n) == IF n < 10 THEN <<48 + n>> ELSE Digits(n \div 10) \o <<48 + (n % 10)>>

\* str(e) of the exception a failed call raised.  The text is whatever the
\* failing library reports; each kind of failure has its own.
ErrText(e) ==
    CASE e = "StoreUnavailable" -> <<83, 116, 111, 114, 101>>
      [] e = "GenerationError"  -> <<71, 101, 110>>
      [] e = "HTTPException"    -> <<52, 48, 48>>

\* A generated text of length n.  The letters cycle a, b, c so that a cut at
\* a wrong position changes the text.
MkText(n) == [i \in 1..n |-> 97 + (i % 3)]

\* ------------------------------------------------------ Response Formatter
\* bot.py:148-150, mutated: keeps the tail of the text instead of its head.
FormatKeepTail(text) ==
    IF Len(text) > ChannelLimit
    THEN SubSeq(text, Len(text) - KeepLen + 1, Len(text)) \o TruncationMarker
    ELSE text

\* bot.py:148-150, mutated: truncates every text of KeepLen or more.
FormatEager(text) ==
    IF Len(text) >= KeepLen
    THEN Take(text, KeepLen) \o TruncationMarker
    ELSE text

\* bot.py:148-150
\*   if len(reply_text) > 2000:
\*       reply_text = reply_text[:1990] + "\n...(内容过长截断)"
Format(text) ==
    IF Len(text) > ChannelLimit
    THEN Take(text, KeepLen) \o TruncationMarker
    ELSE text


\* ------------------------------------------------------------------- state
\* The command slots: two commands may be in flight together.
Cmds == {1, 2}

NoCmd == 0          \* `running` when no coroutine holds the event loop
NoCount == -1       \* table.item_count before the first reload()
NoKey == 0          \* a response without 'LastEvaluatedKey'

VARIABLES
    storePages,     \* the table as the store pages it: one record list per response
    item_count,     \* table.item_count, cached on the process-wide table handle
    running,        \* the command holding the event loop, or NoCmd
    kind,           \* per command: "none", "hello" or "ai"
    mode,           \* per command: "prefix" (message) or "slash" (interaction)
    pc,             \* per command: the next statement of its coroutine
    total_rows,     \* hello_command's local total_rows
    response,       \* ai_command's local response: [Items, LastEvaluatedKey]
    all_items,      \* ai_command's local all_items
    ai_response,    \* ai_command's local ai_response: its .text
    reply_text,     \* ai_command's local reply_text
    exc,            \* the exception caught by the command's except clause
    msgs,           \* per command: the messages the platform shows for it
    typing,         \* per command: the channel shows "bot is typing"
    log,            \* per command: the external calls made so far, in order
    prompt,         \* ai_command's argument prompt: the user's question
    full_prompt,    \* ai_command's local full_prompt
    loaded,         \* per command: the count its own table.reload() loaded
    yield_points,   \* per command: the calls at which it gave up the loop
    fmt_in,         \* formatter study: the input text
    fmt_out,        \* formatter study: the text after fmt_n applications
    fmt_n           \* formatter study: applications made

vars == <<storePages, item_count, running, kind, mode, pc, total_rows, response,
          all_items, ai_response, reply_text, exc, msgs, typing, log, prompt,
          full_prompt, loaded, yield_points, fmt_in, fmt_out, fmt_n>>

cmdVars == <<storePages, item_count, running, kind, mode, pc, total_rows,
             response, all_items, ai_response, reply_text, exc, msgs, typing,
             log, prompt, full_prompt, loaded, yield_points>>

fmtVars == <<fmt_in, fmt_out, fmt_n>>

\* ------------------------------------------------------------------- store
RECURSIVE SumTo(_, _)
SumTo(sizes, n) == IF n = 0 THEN 0 ELSE SumTo(sizes, n - 1) + sizes[n]

\* The table's records are numbered 1, 2, ... in scan order; page i holds
\* sizes[i] of them.
PagesOf(sizes) ==
    [i \in 1..Len(sizes) |->
        [j \in 1..sizes[i] |-> SumTo(sizes, i - 1) + j]]

\* The records one response may carry: none (the store may answer a page
\* request with no record and still a continuation key) or several.
PageSizes == {0, 2}

\* Every way the store may page a table: 1..MaxPages responses, each of a
\* size in PageSizes.  A response may be empty, the last one too.
PageLayouts ==
    { PagesOf(sizes) :
        sizes \in UNION { [1..n -> PageSizes] : n \in 1..MaxPages } }

\* table.scan(ExclusiveStartKey=key), table.scan() for key = NoKey: the page
\* after `key`, with 'LastEvaluatedKey' unless it is the last one.
ScanPage(pages, key) ==
    [Items            |-> pages[key + 1],
     LastEvaluatedKey |-> IF key + 1 < Len(pages) THEN key + 1 ELSE NoKey]

NoResponse == [Items |-> <<>>, LastEvaluatedKey |-> NoKey]

\* The texts model.generate_content(...).text may return: the empty text, the
\* longest one the channel takes and the shortest one it does not.
GenTexts == { MkText(n) : n \in {0, ChannelLimit, ChannelLimit + 1} }

\* ---------------------------------------------------------------- platform
NewMsg(content) == [content |-> content, edits |-> 0, deferred |-> FALSE]

\* channel.send(content): one more message.
SendMsg(ms, content) == Append(ms, NewMsg(content))

\* status_msg.edit(content=...), mutated: sends a new message instead.
EditMsgAsSend(ms, i, content) == SendMsg(ms, content)

\* status_msg.edit(content=...) on the i-th message.
EditMsg(ms, i, content) ==
    [ms EXCEPT ![i] = [content  |-> content,
                       edits    |-> ms[i].edits + 1,
                       deferred |-> FALSE]]

\* ctx.defer(): an interaction gets the deferred "thinking" response; a
\* message-invoked command has no interaction and nothing is emitted.
Defer(ms, m) ==
    IF m = "slash"
    THEN Append(ms, [content |-> <<>>, edits |-> 0, deferred |-> TRUE])
    ELSE ms

\* The platform refuses a message above its length ceiling (bot.py:147).
Accepted(content) == Len(content) <= ChannelLimit

\* ctx.send(content) inside ai_command, mutated: always a new message.
CtxSendNew(ms, m, content) == SendMsg(ms, content)

\* ctx.send(content) inside ai_command.  For an interaction whose response is
\* still deferred, the followup replaces the deferred response; otherwise it
\* is a new message.
CtxSend(ms, m, content) ==
    IF m = "slash" /\ Len(ms) >= 1 /\ ms[1].deferred
    THEN EditMsg(ms, 1, content)
    ELSE SendMsg(ms, content)

\* ------------------------------------------------------------ the commands
\* First statement of each coroutine.
HelloEntry == "h_send"

\* ai_command, mutated: the scan starts before the command is deferred.
AiEntryScanFirst == "a_scan"

AiEntry == "a_defer"

\* f"Hello! ... `{discord_user_id}` ... `{current_time}` ... `{total_rows}`"
\* (bot.py:96-100)
HelloReply(user, time, rows) ==
    HelloPart1 \o Digits(user) \o HelloPart2 \o time \o HelloPart3
        \o Digits(rows) \o HelloPart4

\* ctx.author.id of the command in slot c (bot.py:80).
AuthorId(c) == 100 + c

\* datetime.now().strftime(...) (bot.py:83): "2026-01-01 00:00:00".
CurrentTime ==
    <<50, 48, 50, 54, 45, 48, 49, 45, 48, 49, 32, 48, 48, 58, 48, 48, 58, 48, 48>>

\* The command suspends at the await of `op`: the loop is free until it
\* resumes.
Yielded(c, op) == yield_points' = [yield_points EXCEPT ![c] = @ \cup {op}]

\* The question the issuer of the command in slot c asks: "q1", "q2"
\* (bot.py:111, the argument prompt).  Different commands ask different
\* questions.
QuestionOf(c) == <<113, 48 + c>>

\* The instruction block up to and including the opening "```json\n"
\* (bot.py:137-138).
PromptHead ==
    <<20320, 26159, 19968, 20010, 32874, 26126, 30340, 31169, 20154, 21161,
      29702, 12290, 20197, 19979, 26159, 25105, 30340, 32, 68, 121, 110, 97,
      109, 111, 68, 66, 32, 25968, 25454, 24211, 20013, 30340, 25152, 26377,
      35760, 24405, 25968, 25454, 65306, 10, 96, 96, 96, 106, 115, 111, 110,
      10>>

\* From the closing "\n```\n" to "用户的提问是：" (bot.py:138-140).
PromptTail ==
    <<10, 96, 96, 96, 10, 35831, 26681, 25454, 19978, 36848, 25968, 25454,
      65292, 20934, 30830, 22320, 22238, 31572, 29992, 25143, 30340, 25552,
      38382, 12290, 22914, 26524, 25968, 25454, 20013, 25214, 19981, 21040,
      31572, 26696, 65292, 35831, 35802, 23454, 22320, 35828, 26126, 12290,
      29992, 25143, 22914, 26524, 29992, 33521, 35821, 25552, 38382, 21017,
      29992, 33521, 35821, 22238, 31572, 12290, 10, 10, 29992, 25143, 30340,
      25552, 38382, 26159, 65306>>

RECURSIVE JoinItems(_)
\* The records of a list, each rendered by str(), separated by ", ".
JoinItems(items) ==
    IF items = <<>> THEN <<>>
    ELSE IF Len(items) = 1 THEN Digits(items[1])
    ELSE Digits(items[1]) \o <<44, 32>> \o JoinItems(Tail(items))

\* bot.py:133  db_context_text = str(all_items): "[r1, r2, ...]".
SerializeItems(items) == <<91>> \o JoinItems(items) \o <<93>>

\* The prompt, mutated: the user's question is left out.
BuildPromptNoQuestion(context, question) ==
    PromptHead \o context \o PromptTail

\* bot.py:136-141  full_prompt
BuildPrompt(context, question) ==
    PromptHead \o context \o PromptTail \o question

\* log entries are <<call, argument>>: "send_placeholder", "defer" (1 when
\* the deferred response was emitted, 0 when the call emitted nothing),
\* "typing_on", "reload", "scan" (the ExclusiveStartKey sent),
\* "generate", "edit" and "send" (the length of the text handed over).
Logged(c, op, arg) == log' = [log EXCEPT ![c] = Append(@, <<op, arg>>)]

\* A command is invoked: discord.py schedules its coroutine.
Arrive(c) ==
    /\ pc[c] = "idle"
    /\ \E k \in {"hello", "ai"} :
        \E m \in (IF k = "hello" THEN {"prefix"} ELSE {"prefix", "slash"}) :
            /\ prompt' = [prompt EXCEPT ![c] =
                              IF k = "hello" THEN <<>> ELSE QuestionOf(c)]
            /\ kind' = [kind EXCEPT ![c] = k]
            /\ mode' = [mode EXCEPT ![c] = m]
            /\ pc' = [pc EXCEPT ![c] = IF k = "hello" THEN HelloEntry ELSE AiEntry]
    /\ UNCHANGED <<ai_response, storePages, item_count, running, total_rows,
                   response,
                   all_items, reply_text, exc, msgs, typing, log>>
    /\ UNCHANGED <<full_prompt, loaded, yield_points>>
    /\ UNCHANGED fmtVars

\* ----------------------------------------------------------- hello_command
\* bot.py:80-86: reads the author id and the clock, then
\*   status_msg = await ctx.send("正在统计 DynamoDB 数据，请稍候...")
HelloSend(c) ==
    /\ pc[c] = "h_send" /\ running = NoCmd
    /\ msgs' = [msgs EXCEPT ![c] = SendMsg(@, PlaceholderText)]
    /\ Logged(c, "send_placeholder", 0)
    /\ Yielded(c, "send_placeholder")
    /\ pc' = [pc EXCEPT ![c] = "h_reload"]
    /\ UNCHANGED <<ai_response, storePages, item_count, running, kind, mode,
                   total_rows,
                   response, all_items, reply_text, exc, typing>>
    /\ UNCHANGED <<prompt, full_prompt, loaded>>
    /\ UNCHANGED fmtVars

\* table.reload(), mutated: the call is awaited, so the loop is free between
\* the refresh and the read of item_count.
AfterReloadYield(c) == NoCmd

\* bot.py:91-93  table.reload() is a plain call: when it returns, the
\* command still holds the loop.
AfterReload(c) == c

\* bot.py:91  table.reload(): a blocking call that loads the table metadata
\* into the shared handle, or raises.
HelloReload(c) ==
    /\ pc[c] = "h_reload" /\ running = NoCmd
    /\ running' = AfterReload(c)
    /\ Logged(c, "reload", 0)
    /\ \/ \E n \in 0..MaxCount :
            /\ item_count' = n
            /\ loaded' = [loaded EXCEPT ![c] = n]
            /\ pc' = [pc EXCEPT ![c] = "h_read"]
            /\ exc' = exc
       \/ /\ exc' = [exc EXCEPT ![c] = "StoreUnavailable"]
          /\ pc' = [pc EXCEPT ![c] = "h_except"]
          /\ item_count' = item_count
          /\ loaded' = loaded
    /\ UNCHANGED <<ai_response, storePages, kind, mode, total_rows, response,
                   all_items,
                   reply_text, msgs, typing>>
    /\ UNCHANGED <<prompt, full_prompt, yield_points>>
    /\ UNCHANGED fmtVars

\* bot.py:93  total_rows = table.item_count
HelloRead(c) ==
    /\ pc[c] = "h_read" /\ running = AfterReload(c)
    /\ running' = c
    /\ total_rows' = [total_rows EXCEPT ![c] = item_count]
    /\ pc' = [pc EXCEPT ![c] = "h_edit"]
    /\ UNCHANGED <<ai_response, storePages, item_count, kind, mode,
                   response,
                   all_items, reply_text, exc, msgs, typing, log>>
    /\ UNCHANGED <<prompt, full_prompt, loaded, yield_points>>
    /\ UNCHANGED fmtVars

\* bot.py:96-103  await status_msg.edit(content=reply_message)
HelloEdit(c) ==
    /\ pc[c] = "h_edit" /\ running = c
    /\ msgs' = [msgs EXCEPT ![c] =
                   EditMsg(@, 1, HelloReply(AuthorId(c), CurrentTime, total_rows[c]))]
    /\ Logged(c, "edit", 0)
    /\ Yielded(c, "edit")
    /\ pc' = [pc EXCEPT ![c] = "done"]
    /\ running' = NoCmd
    /\ UNCHANGED <<ai_response, storePages, item_count, kind, mode, total_rows,
                   response,
                   all_items, reply_text, exc, typing>>
    /\ UNCHANGED <<prompt, full_prompt, loaded>>
    /\ UNCHANGED fmtVars

\* bot.py:105-106  await status_msg.edit(content=f"⚠️ 查询数据库时发生错误: {str(e)}")
HelloExcept(c) ==
    /\ pc[c] = "h_except" /\ running = AfterReload(c)
    /\ msgs' = [msgs EXCEPT ![c] =
                   EditMsg(@, 1, HelloErrorPrefix \o ErrText(exc[c]))]
    /\ Logged(c, "edit", 0)
    /\ Yielded(c, "edit")
    /\ pc' = [pc EXCEPT ![c] = "done"]
    /\ running' = NoCmd
    /\ UNCHANGED <<ai_response, storePages, item_count, kind, mode, total_rows,
                   response,
                   all_items, reply_text, exc, typing>>
    /\ UNCHANGED <<prompt, full_prompt, loaded>>
    /\ UNCHANGED fmtVars

\* -------------------------------------------------------------- ai_command
\* bot.py:116  await ctx.defer().  With an interaction the request goes out
\* and the coroutine yields; without one the call returns at once.
AiDefer(c) ==
    /\ pc[c] = "a_defer" /\ running = NoCmd
    /\ msgs' = [msgs EXCEPT ![c] = Defer(@, mode[c])]
    /\ IF mode[c] = "slash"
       THEN Logged(c, "defer", 1) /\ running' = NoCmd /\ Yielded(c, "defer")
       ELSE Logged(c, "defer", 0) /\ running' = c /\ UNCHANGED yield_points
    /\ pc' = [pc EXCEPT ![c] = "a_typing"]
    /\ UNCHANGED <<ai_response, storePages, item_count, kind, mode, total_rows,
                   response,
                   all_items, reply_text, exc, typing>>
    /\ UNCHANGED <<prompt, full_prompt, loaded>>
    /\ UNCHANGED fmtVars

\* bot.py:120  async with ctx.typing().  For a message the typing request
\* goes out and the coroutine yields; for an interaction already deferred it
\* does nothing.
AiTypingEnter(c) ==
    /\ pc[c] = "a_typing"
    /\ IF mode[c] = "slash"
       THEN /\ running = NoCmd
            /\ running' = c
            /\ UNCHANGED <<typing, log, yield_points>>
       ELSE /\ running = c
            /\ running' = NoCmd
            /\ typing' = [typing EXCEPT ![c] = TRUE]
            /\ Logged(c, "typing_on", 0)
            /\ Yielded(c, "typing_on")
    /\ pc' = [pc EXCEPT ![c] = "a_scan"]
    /\ UNCHANGED <<ai_response, storePages, item_count, kind, mode, total_rows,
                   response,
                   all_items, reply_text, exc, msgs>>
    /\ UNCHANGED <<prompt, full_prompt, loaded>>
    /\ UNCHANGED fmtVars

\* A failing call, mutated: it hangs instead of raising.
AfterFailureHang(step) == "a_hung"

\* The except clause, mutated: a failed page request is swallowed and the
\* command goes on with the records it has.
ContinueAfterScanFailure(step) == IF step = "scan" THEN "a_loop" ELSE "a_except"

\* The except clause, mutated: a failed generator call is tried again.
RetryAfterFailure(step) == IF step = "generate" THEN "a_loop" ELSE "a_except"

\* bot.py:121, 155: an exception raised by any statement of the try block
\* transfers control to the except clause.
AfterFailure(step) == "a_except"

\* all_items.extend(items), mutated: the new page goes in front.
ExtendFront(items, page) == page \o items

\* bot.py:130  all_items.extend(response.get('Items', []))
Extend(items, page) == items \o page

\* The continuation token, mutated: every later request starts over.
RequestKeyRestart(resp) == NoKey

\* bot.py:129  ExclusiveStartKey=response['LastEvaluatedKey']
RequestKey(resp) == resp.LastEvaluatedKey

\* The question, mutated: kept in one place shared by all commands, where the
\* command of the last slot overwrites it.
SharedQuestion(c) == prompt[CHOOSE d \in Cmds : \A e \in Cmds : d >= e]

\* bot.py:111, 140  prompt is a parameter of the coroutine: each invocation
\* has its own.
OwnQuestion(c) == prompt[c]

\* The loop test, mutated: stops after the first response.
HasMoreNever(resp) == FALSE

\* bot.py:128  'LastEvaluatedKey' in response
HasMore(resp) == resp.LastEvaluatedKey # NoKey

\* bot.py:124-125  response = table.scan(); all_items = response.get('Items', [])
\* A blocking call; it may raise.
AiScanFirst(c) ==
    /\ pc[c] = "a_scan" /\ running \in {NoCmd, c}
    /\ running' = c
    /\ Logged(c, "scan", NoKey)
    /\ \/ /\ response' = [response EXCEPT ![c] = ScanPage(storePages, NoKey)]
          /\ all_items' = [all_items EXCEPT ![c] = ScanPage(storePages, NoKey).Items]
          /\ pc' = [pc EXCEPT ![c] = "a_loop"]
          /\ exc' = exc
       \/ /\ exc' = [exc EXCEPT ![c] = "StoreUnavailable"]
          /\ pc' = [pc EXCEPT ![c] = AfterFailure("scan")]
          /\ UNCHANGED <<response, all_items>>
    /\ UNCHANGED <<ai_response, storePages, item_count, kind, mode, total_rows,
                   reply_text,
                   msgs, typing>>
    /\ UNCHANGED <<prompt, full_prompt, loaded, yield_points>>
    /\ UNCHANGED fmtVars

\* bot.py:128-130  one round of the while loop:
\*   response = table.scan(ExclusiveStartKey=response['LastEvaluatedKey'])
\*   all_items.extend(response.get('Items', []))
AiScanNext(c) ==
    /\ pc[c] = "a_loop" /\ running = c
    /\ HasMore(response[c])
    /\ Logged(c, "scan", RequestKey(response[c]))
    /\ \/ LET r == ScanPage(storePages, RequestKey(response[c])) IN
            /\ response' = [response EXCEPT ![c] = r]
            /\ all_items' = [all_items EXCEPT ![c] = Extend(@, r.Items)]
            /\ UNCHANGED <<pc, exc>>
       \/ /\ exc' = [exc EXCEPT ![c] = "StoreUnavailable"]
          /\ pc' = [pc EXCEPT ![c] = AfterFailure("scan")]
          /\ UNCHANGED <<response, all_items>>
    /\ UNCHANGED <<ai_response, storePages, item_count, running, kind, mode,
                   total_rows,
                   reply_text, msgs, typing>>
    /\ UNCHANGED <<prompt, full_prompt, loaded, yield_points>>
    /\ UNCHANGED fmtVars

\* bot.py:128, 133-145  the loop ends; the prompt is built from str(all_items)
\* and the question, and model.generate_content(full_prompt).text is taken.
\* A blocking call; it may raise.
AiGenerate(c) ==
    /\ pc[c] = "a_loop" /\ running = c
    /\ ~HasMore(response[c])
    /\ full_prompt' = [full_prompt EXCEPT ![c] =
                          BuildPrompt(SerializeItems(all_items[c]), OwnQuestion(c))]
    /\ Logged(c, "generate", 0)
    /\ \/ \E t \in GenTexts :
            /\ ai_response' = [ai_response EXCEPT ![c] = t]
            /\ reply_text' = [reply_text EXCEPT ![c] = t]
            /\ pc' = [pc EXCEPT ![c] = "a_format"]
            /\ exc' = exc
       \/ /\ exc' = [exc EXCEPT ![c] = "GenerationError"]
          /\ pc' = [pc EXCEPT ![c] = AfterFailure("generate")]
          /\ UNCHANGED <<ai_response, reply_text>>
    /\ UNCHANGED <<storePages, item_count, running, kind, mode, total_rows,
                   response, all_items, msgs, typing>>
    /\ UNCHANGED <<prompt, loaded, yield_points>>
    /\ UNCHANGED fmtVars

\* bot.py:148-150  the length check and the truncation
AiFormat(c) ==
    /\ pc[c] = "a_format" /\ running = c
    /\ reply_text' = [reply_text EXCEPT ![c] = Format(@)]
    /\ pc' = [pc EXCEPT ![c] = "a_send"]
    /\ UNCHANGED <<ai_response, storePages, item_count, running, kind, mode,
                   total_rows,
                   response, all_items, exc, msgs, typing, log>>
    /\ UNCHANGED <<prompt, full_prompt, loaded, yield_points>>
    /\ UNCHANGED fmtVars

\* bot.py:153  await ctx.send(f"{reply_text}").  The coroutine yields while
\* the request is out; the platform takes the message, or refuses it and the
\* call raises inside the try block.
AiSend(c) ==
    /\ pc[c] = "a_send" /\ running = c
    /\ Logged(c, "send", Len(reply_text[c]))
    /\ Yielded(c, "send")
    /\ running' = NoCmd
    /\ IF Accepted(reply_text[c])
       THEN /\ msgs' = [msgs EXCEPT ![c] = CtxSend(@, mode[c], reply_text[c])]
            /\ pc' = [pc EXCEPT ![c] = "a_exit"]
            /\ exc' = exc
       ELSE /\ exc' = [exc EXCEPT ![c] = "HTTPException"]
            /\ pc' = [pc EXCEPT ![c] = AfterFailure("send")]
            /\ msgs' = msgs
    /\ UNCHANGED <<ai_response, storePages, item_count, kind, mode, total_rows,
                   response,
                   all_items, reply_text, typing>>
    /\ UNCHANGED <<prompt, full_prompt, loaded>>
    /\ UNCHANGED fmtVars

\* bot.py:155-157  await ctx.send(f"⚠️ AI 处理出错: {str(e)}")
AiExcept(c) ==
    /\ pc[c] = "a_except"
    /\ running = (IF exc[c] = "HTTPException" THEN NoCmd ELSE c)
    /\ msgs' = [msgs EXCEPT ![c] =
                   CtxSend(@, mode[c], AiErrorPrefix \o ErrText(exc[c]))]
    /\ Logged(c, "send", Len(AiErrorPrefix \o ErrText(exc[c])))
    /\ Yielded(c, "send")
    /\ pc' = [pc EXCEPT ![c] = "a_exit"]
    /\ running' = NoCmd
    /\ UNCHANGED <<ai_response, storePages, item_count, kind, mode, total_rows,
                   response,
                   all_items, reply_text, exc, typing>>
    /\ UNCHANGED <<prompt, full_prompt, loaded>>
    /\ UNCHANGED fmtVars

\* bot.py:120  the end of the `async with ctx.typing()` block: the keep-alive
\* task is cancelled and, the outcome message being out, the typing indicator
\* of a message-invoked command is gone.
AiTypingExit(c) ==
    /\ pc[c] = "a_exit" /\ running = NoCmd
    /\ typing' = [typing EXCEPT ![c] = FALSE]
    /\ pc' = [pc EXCEPT ![c] = "done"]
    /\ UNCHANGED <<ai_response, storePages, item_count, running, kind, mode,
                   total_rows,
                   response, all_items, reply_text, exc, msgs, log>>
    /\ UNCHANGED <<prompt, full_prompt, loaded, yield_points>>
    /\ UNCHANGED fmtVars

\* The statements of ai_command inside the `async with ctx.typing()` block.
InTypingBlock(c) ==
    pc[c] \in {"a_scan", "a_loop", "a_format", "a_send", "a_except", "a_exit"}

\* bot.py:120-144  One typing request shows the indicator for about ten
\* seconds.  ctx.typing() renews it from a task on the event loop, and that
\* task cannot run while a blocking call (table.scan, generate_content,
\* table.reload) holds the loop: the indicator then runs out.
TypingLapse(c) ==
    /\ typing[c]
    /\ running # NoCmd
    /\ typing' = [typing EXCEPT ![c] = FALSE]
    /\ UNCHANGED <<storePages, item_count, running, kind, mode, pc, total_rows,
                   response, all_items, ai_response, reply_text, exc, msgs,
                   log, prompt, full_prompt, loaded, yield_points>>
    /\ UNCHANGED fmtVars

\* bot.py:120  The keep-alive task of ctx.typing() runs when the loop is free
\* and sends the typing request again.
TypingKeepAlive(c) ==
    /\ kind[c] = "ai" /\ mode[c] = "prefix" /\ InTypingBlock(c)
    /\ ~typing[c]
    /\ running = NoCmd
    /\ typing' = [typing EXCEPT ![c] = TRUE]
    /\ UNCHANGED <<storePages, item_count, running, kind, mode, pc, total_rows,
                   response, all_items, ai_response, reply_text, exc, msgs,
                   log, prompt, full_prompt, loaded, yield_points>>
    /\ UNCHANGED fmtVars

\* --------------------------------------------------------- specifications
Init ==
    /\ storePages \in PageLayouts
    /\ item_count = NoCount
    /\ running = NoCmd
    /\ kind = [c \in Cmds |-> "none"]
    /\ mode = [c \in Cmds |-> "prefix"]
    /\ pc = [c \in Cmds |-> "idle"]
    /\ total_rows = [c \in Cmds |-> NoCount]
    /\ response = [c \in Cmds |-> NoResponse]
    /\ all_items = [c \in Cmds |-> <<>>]
    /\ ai_response = [c \in Cmds |-> <<>>]
    /\ reply_text = [c \in Cmds |-> <<>>]
    /\ exc = [c \in Cmds |-> "none"]
    /\ msgs = [c \in Cmds |-> <<>>]
    /\ typing = [c \in Cmds |-> FALSE]
    /\ log = [c \in Cmds |-> <<>>]
    /\ prompt = [c \in Cmds |-> <<>>]
    /\ full_prompt = [c \in Cmds |-> <<>>]
    /\ loaded = [c \in Cmds |-> NoCount]
    /\ yield_points = [c \in Cmds |-> {}]
    /\ fmt_in = <<>>
    /\ fmt_out = <<>>
    /\ fmt_n = 0

Next ==
    \E c \in Cmds :
        \/ Arrive(c)
        \/ HelloSend(c)
        \/ HelloReload(c)
        \/ HelloRead(c)
        \/ HelloEdit(c)
        \/ HelloExcept(c)
        \/ AiDefer(c)
        \/ AiTypingEnter(c)
        \/ AiScanFirst(c)
        \/ AiScanNext(c)
        \/ AiGenerate(c)
        \/ AiFormat(c)
        \/ AiSend(c)
        \/ AiExcept(c)
        \/ AiTypingExit(c)
        \/ TypingLapse(c)
        \/ TypingKeepAlive(c)

Spec == Init /\ [][Next]_vars

\* The steps of the coroutine of the command in slot c.
CmdStep(c) ==
    \/ HelloSend(c) \/ HelloReload(c) \/ HelloRead(c) \/ HelloEdit(c)
    \/ HelloExcept(c)
    \/ AiDefer(c) \/ AiTypingEnter(c) \/ AiScanFirst(c) \/ AiScanNext(c)
    \/ AiGenerate(c) \/ AiFormat(c) \/ AiSend(c) \/ AiExcept(c)
    \/ AiTypingExit(c)

\* The event loop runs every coroutine that is ready, and every external call
\* returns or fails: a command whose next step stays possible takes it.
SpecLive == Spec /\ \A c \in Cmds : WF_vars(CmdStep(c))

\* ------------------------------------------------- the formatter on its own
\* Input texts around the two thresholds of the formatter: the empty text, a
\* one-letter text, and every length from a little under KeepLen to a little
\* over the longest formatted text; each as plain letters and as a text that
\* already ends with the truncation marker.
FormatLengths ==
    {0, 1} \cup (KeepLen - 5 .. ChannelLimit + Len(TruncationMarker) + MaxExtra)

FormatInputs ==
    { MkText(n) : n \in FormatLengths }
        \cup { MkText(n - Len(TruncationMarker)) \o TruncationMarker :
                 n \in { m \in FormatLengths : m >= Len(TruncationMarker) } }

FormatInit ==
    /\ storePages = <<<<>>>>
    /\ item_count = NoCount
    /\ running = NoCmd
    /\ kind = [c \in Cmds |-> "none"]
    /\ mode = [c \in Cmds |-> "prefix"]
    /\ pc = [c \in Cmds |-> "idle"]
    /\ total_rows = [c \in Cmds |-> NoCount]
    /\ response = [c \in Cmds |-> NoResponse]
    /\ all_items = [c \in Cmds |-> <<>>]
    /\ ai_response = [c \in Cmds |-> <<>>]
    /\ reply_text = [c \in Cmds |-> <<>>]
    /\ exc = [c \in Cmds |-> "none"]
    /\ msgs = [c \in Cmds |-> <<>>]
    /\ typing = [c \in Cmds |-> FALSE]
    /\ log = [c \in Cmds |-> <<>>]
    /\ prompt = [c \in Cmds |-> <<>>]
    /\ full_prompt = [c \in Cmds |-> <<>>]
    /\ loaded = [c \in Cmds |-> NoCount]
    /\ yield_points = [c \in Cmds |-> {}]
    /\ fmt_in \in FormatInputs
    /\ fmt_out = fmt_in
    /\ fmt_n = 0

\* One more application of the formatting step to its own output.
FormatApply ==
    /\ fmt_n < MaxApply
    /\ fmt_out' = Format(fmt_out)
    /\ fmt_n' = fmt_n + 1
    /\ UNCHANGED fmt_in
    /\ UNCHANGED cmdVars

FormatNext == FormatApply

SpecFormat == FormatInit /\ [][FormatNext]_vars

\* ------------------------------------------------------- claim vocabulary
\* How often a call appears in a command's log.
Calls(c, op) == Cardinality({ i \in DOMAIN log[c] : log[c][i][1] = op })

\* Kinds of log entries.
IsAckCall(e) == e[1] \in {"send_placeholder", "defer"}
IsEmittedSignal(e) ==
    \/ e[1] \in {"send_placeholder", "typing_on"}
    \/ e = <<"defer", 1>>

IsBackendCall(e) == e[1] \in {"reload", "scan", "generate"}

\* The command's coroutine has delivered its outcome.
Terminal(c) == pc[c] \in {"a_exit", "done"}

\* The content of the last message the platform shows for c.
Shown(c) == msgs[c][Len(msgs[c])].content

\* The pagination loop of c has seen the response without a continuation
\* token.
FetchDone(c) ==
    \/ pc[c] = "a_loop" /\ ~HasMore(response[c])
    \/ Calls(c, "generate") > 0

RECURSIVE Flatten(_)
\* The concatenation of a sequence of pages, in page order.
Flatten(pages) ==
    IF pages = <<>> THEN <<>> ELSE Head(pages) \o Flatten(Tail(pages))

\* Pages that hold at least one record.
DataPages(pages) == Cardinality({ i \in DOMAIN pages : Len(pages[i]) > 0 })

\* ------------------------------------------------------------------ claims
\* C1: no store call (metadata refresh, page scan) and no generator call is
\* made by a command before its acknowledgment call (the placeholder send of
\* hello_command, the defer of ai_command) has been made, and before a signal
\* has gone out to the issuer: the placeholder, the deferred response or, for
\* a message-invoked ai_command whose defer emits nothing, the typing
\* indicator.
C1_AckBeforeBackend ==
    \A c \in Cmds : \A i \in DOMAIN log[c] :
        IsBackendCall(log[c][i]) =>
            /\ \E j \in 1..(i - 1) : IsAckCall(log[c][j])
            /\ \E j \in 1..(i - 1) : IsEmittedSignal(log[c][j])

C1_Witness ==
    /\ \E c \in Cmds : kind[c] = "hello" /\ Calls(c, "reload") = 1
    /\ \E c \in Cmds : kind[c] = "ai" /\ Calls(c, "generate") = 1

\* C2: a hello_command creates exactly one placeholder message and edits it
\* exactly once, with the reply when the refresh succeeds and with the
\* warning-marked error when it fails; it never creates a second message.
C2_HelloOnePlaceholderOneEdit ==
    \A c \in Cmds : kind[c] = "hello" =>
        /\ Len(msgs[c]) <= 1
        /\ Calls(c, "send_placeholder") = Len(msgs[c])
        /\ pc[c] \in {"h_reload", "h_read", "h_edit", "h_except"} =>
              /\ Len(msgs[c]) = 1
              /\ msgs[c][1] = NewMsg(PlaceholderText)
        /\ pc[c] = "done" =>
              /\ Len(msgs[c]) = 1
              /\ msgs[c][1].edits = 1
              /\ Calls(c, "edit") = 1
              /\ exc[c] = "none" =>
                    Shown(c) = HelloReply(AuthorId(c), CurrentTime, total_rows[c])
              /\ exc[c] = "StoreUnavailable" =>
                    /\ Shown(c) = HelloErrorPrefix \o ErrText("StoreUnavailable")
                    /\ IsPrefix(WarningMarker, Shown(c))

C2_Witness ==
    /\ \E c \in Cmds :
          kind[c] = "hello" /\ pc[c] = "done" /\ exc[c] = "StoreUnavailable"
    /\ \E c \in Cmds : kind[c] = "hello" /\ pc[c] = "done" /\ exc[c] = "none"

\* C3 as stated: every ai_command has a provisional reply created at
\* acknowledgment, and its terminal result is exactly one edit of that reply.
C3_AiAlwaysEditsPlaceholder ==
    \A c \in Cmds : (kind[c] = "ai" /\ Terminal(c)) =>
        /\ <<"defer", 1>> \in { log[c][i] : i \in DOMAIN log[c] }
        /\ Len(msgs[c]) = 1
        /\ msgs[c][1].edits = 1

\* C3 amended: an ai_command invoked as an interaction gets the deferred
\* response at acknowledgment and its terminal result replaces that response
\* in exactly one edit, with no new message; an ai_command invoked by a
\* message gets no provisional reply (defer emits nothing) and its terminal
\* result is exactly one new message.  Either way the issuer sees one message.
C3_AiOneTerminalDelivery ==
    \A c \in Cmds : kind[c] = "ai" =>
        /\ Len(msgs[c]) <= 1
        /\ mode[c] = "slash" =>
              /\ pc[c] \notin {"a_defer", "a_exit", "done"} =>
                    /\ Len(msgs[c]) = 1
                    /\ msgs[c][1].deferred /\ msgs[c][1].edits = 0
              /\ Terminal(c) =>
                    /\ Len(msgs[c]) = 1
                    /\ ~msgs[c][1].deferred /\ msgs[c][1].edits = 1
        /\ mode[c] = "prefix" =>
              /\ ~Terminal(c) => msgs[c] = <<>>
              /\ Terminal(c) => Len(msgs[c]) = 1 /\ msgs[c][1].edits = 0

C3_Witness ==
    /\ \E c \in Cmds : kind[c] = "ai" /\ mode[c] = "slash" /\ pc[c] = "done"
    /\ \E c \in Cmds : kind[c] = "ai" /\ mode[c] = "prefix" /\ pc[c] = "done"

\* C4: for a text longer than 2000 the formatting step yields a text of
\* length exactly 2000 that ends with the truncation marker.
C4_LongTextFormatsToLimit ==
    (fmt_n = 1 /\ Len(fmt_in) > ChannelLimit) =>
        /\ Len(fmt_out) = ChannelLimit
        /\ IsSuffix(TruncationMarker, fmt_out)

\* C5: no text handed to the platform by ai_command's answer send is longer
\* than the channel limit of 2000.
C5_SentWithinLimit ==
    \A c \in Cmds : \A i \in DOMAIN log[c] :
        log[c][i][1] = "send" => log[c][i][2] <= ChannelLimit

C7_FormatIdempotent ==
    /\ fmt_n >= 1 => Format(fmt_out) = fmt_out
    /\ fmt_n >= 1 => fmt_out = Format(fmt_in)

C7_Witness ==
    /\ fmt_n = 2
    /\ Len(fmt_in) > ChannelLimit
    /\ fmt_out # fmt_in

\* C8: when no page request fails, the records accumulated by the full-table
\* fetch are the concatenation of all the pages in page order; while the loop
\* runs they are the concatenation of the pages fetched so far.
C8_AllPagesInOrder ==
    \A c \in Cmds : kind[c] = "ai" =>
        /\ (pc[c] = "a_loop" /\ HasMore(response[c])) =>
              all_items[c] =
                  Flatten(SubSeq(storePages, 1, response[c].LastEvaluatedKey))
        /\ FetchDone(c) => all_items[c] = Flatten(storePages)

C8_Witness ==
    \E c \in Cmds :
        /\ kind[c] = "ai" /\ Calls(c, "generate") = 1
        /\ Len(storePages) >= 2
        /\ \A i \in DOMAIN storePages : Len(storePages[i]) > 0
        /\ all_items[c] = Flatten(storePages)

\* C9 as stated: a Record Set split across N data pages takes exactly N + 1
\* page requests.
C9_RequestsAreDataPagesPlusOne ==
    \A c \in Cmds : (kind[c] = "ai" /\ FetchDone(c)) =>
        Calls(c, "scan") = DataPages(storePages) + 1

\* C9 amended: the fetch issues exactly one page request per response, up to
\* and including the first response without a continuation token.  When the
\* last of N data pages carries no token that is N requests; it is N + 1 only
\* when every data page carries a token and one further, empty page ends the
\* scan.
C9_OneRequestPerResponse ==
    \A c \in Cmds : kind[c] = "ai" =>
        /\ FetchDone(c) =>
              /\ Calls(c, "scan") = Len(storePages)
              /\ (\A i \in DOMAIN storePages : Len(storePages[i]) > 0) =>
                    Calls(c, "scan") = DataPages(storePages)
              /\ (\A i \in DOMAIN storePages :
                      Len(storePages[i]) > 0 <=> i < Len(storePages)) =>
                    Calls(c, "scan") = DataPages(storePages) + 1
        /\ Calls(c, "scan") <= Len(storePages)

C9_Witness ==
    \E c \in Cmds :
        /\ kind[c] = "ai" /\ FetchDone(c)
        /\ Len(storePages) >= 2
        /\ \A i \in DOMAIN storePages : Len(storePages[i]) > 0
        /\ Calls(c, "scan") = DataPages(storePages)

\* C10: when the generator call of an ai_command fails, the message shown is
\* the warning-marked error string and the generator has been called exactly
\* once for that command.
C10_GeneratorFailureNotRetried ==
    \A c \in Cmds : kind[c] = "ai" =>
        /\ Calls(c, "generate") <= 1
        /\ exc[c] = "GenerationError" =>
              /\ Calls(c, "generate") = 1
              /\ pc[c] \in {"a_except", "a_exit", "done"}
              /\ Terminal(c) =>
                    /\ Shown(c) = AiErrorPrefix \o ErrText("GenerationError")
                    /\ IsPrefix(WarningMarker, Shown(c))

C10_Witness ==
    \E c \in Cmds :
        /\ kind[c] = "ai" /\ pc[c] = "done" /\ exc[c] = "GenerationError"
        /\ IsPrefix(WarningMarker, Shown(c))

\* C11: when a page request of the full-table fetch fails, on the first page
\* or on a later one, the generator is never called for that command, and the
\* only message shown is the warning-marked error: nothing built from the
\* records already fetched is shown.
C11_ScanFailureDiscardsPartial ==
    \A c \in Cmds : (kind[c] = "ai" /\ exc[c] = "StoreUnavailable") =>
        /\ Calls(c, "generate") = 0
        /\ full_prompt[c] = <<>> /\ ai_response[c] = <<>> /\ reply_text[c] = <<>>
        /\ pc[c] \in {"a_except", "a_exit", "done"}
        /\ ~Terminal(c) => \A i \in DOMAIN msgs[c] : msgs[c][i].content = <<>>
        /\ Terminal(c) =>
              /\ Len(msgs[c]) = 1
              /\ Shown(c) = AiErrorPrefix \o ErrText("StoreUnavailable")
              /\ IsPrefix(WarningMarker, Shown(c))
              /\ Calls(c, "send") = 1

C11_Witness ==
    /\ \E c \in Cmds :
          /\ kind[c] = "ai" /\ pc[c] = "done" /\ exc[c] = "StoreUnavailable"
          /\ Calls(c, "scan") = 1
    /\ \E c \in Cmds :
          /\ kind[c] = "ai" /\ pc[c] = "done" /\ exc[c] = "StoreUnavailable"
          /\ Calls(c, "scan") >= 2 /\ Len(all_items[c]) >= 1

\* The outcome message a command owes its issuer, given how its run went.
Outcome(c) ==
    IF kind[c] = "hello"
    THEN IF exc[c] = "none"
         THEN HelloReply(AuthorId(c), CurrentTime, total_rows[c])
         ELSE HelloErrorPrefix \o ErrText(exc[c])
    ELSE IF exc[c] = "none"
         THEN Format(ai_response[c])
         ELSE AiErrorPrefix \o ErrText(exc[c])

\* A command has finished its last send or edit.
Finished(c) == pc[c] = "done" \/ (kind[c] = "ai" /\ pc[c] = "a_exit")

\* Sends and edits the platform took for c: all but a refused answer send.
Delivered(c) ==
    Calls(c, "send") + Calls(c, "edit")
        - (IF exc[c] = "HTTPException" THEN 1 ELSE 0)

\* C12: every finished command shows exactly one outcome message, the
\* formatted answer or count when nothing failed and otherwise one
\* warning-marked error; and a finished command makes no further send or
\* edit: in every state after it finished, the platform has taken exactly one
\* outcome send or edit from it.
C12_ExactlyOneOutcome ==
    \A c \in Cmds : Finished(c) =>
        /\ Len(msgs[c]) = 1
        /\ ~msgs[c][1].deferred
        /\ Shown(c) = Outcome(c)
        /\ IsPrefix(WarningMarker, Shown(c)) <=> exc[c] # "none"
        /\ Delivered(c) = 1
        /\ msgs[c][1].edits <= 1

C12_Witness ==
    /\ \E c \in Cmds : pc[c] = "done" /\ kind[c] = "hello" /\ exc[c] = "none"
    /\ \E c \in Cmds : pc[c] = "done" /\ kind[c] = "ai" /\ exc[c] = "HTTPException"

\* The issuer sees that the command is being worked on: the typing indicator
\* of a message-invoked command, the deferred "thinking" response of an
\* interaction.
Working(c) ==
    \/ typing[c]
    \/ Len(msgs[c]) >= 1 /\ msgs[c][1].deferred

\* C13: in an ai_command the working indicator is on at every step between
\* the acknowledgment and the delivery of the terminal message, and off once
\* the command is done.
C13_WorkingIndicatorContinuous ==
    \A c \in Cmds : kind[c] = "ai" =>
        /\ pc[c] \in {"a_scan", "a_loop", "a_format", "a_send", "a_except"} =>
              Working(c)
        /\ pc[c] = "done" => ~Working(c)

\* C14: with commands interleaved in any way, what a command shows is
\* computed from its own run alone: a count from its own refresh, a prompt
\* from its own question and the records its own scans fetched, an error from
\* its own failure; it is shown in the command's own single message, whatever
\* the other command did or suffered.
C14_RunsIsolated ==
    \A c \in Cmds :
        /\ Len(msgs[c]) <= 1
        /\ (kind[c] = "hello" /\ exc[c] = "none" /\ pc[c] \in {"h_edit", "done"}) =>
              total_rows[c] = loaded[c]
        /\ (kind[c] = "ai" /\ Calls(c, "generate") = 1) =>
              /\ all_items[c] = Flatten(storePages)
              /\ full_prompt[c] =
                    BuildPrompt(SerializeItems(all_items[c]), QuestionOf(c))
        /\ Finished(c) =>
              /\ Shown(c) = Outcome(c)
              /\ exc[c] = "none" <=> ~IsPrefix(WarningMarker, Shown(c))

C14_Witness ==
    \E c \in Cmds : \E d \in Cmds \ {c} :
        /\ kind[c] = "ai" /\ pc[c] = "done" /\ exc[c] = "StoreUnavailable"
        /\ kind[d] = "ai" /\ pc[d] = "done" /\ exc[d] = "none"
        /\ full_prompt[d] # <<>> /\ Shown(d) = ai_response[d]
        /\ log[c][1] = <<"defer", 1>> /\ log[d][1] = <<"defer", 1>>

\* C15: a command gives up the event loop at its store calls (the metadata
\* refresh, every page request) and at its generator call, so that another
\* command can run while it waits for them.
C15_YieldsAtBackendCalls ==
    \A c \in Cmds : \A op \in {"reload", "scan", "generate"} :
        Calls(c, op) > 0 => op \in yield_points[c]

\* The positions of a call in c's log.
At(c, op) == { i \in DOMAIN log[c] : log[c][i][1] = op }

\* C16: within one ai_command the steps follow one another: the generator is
\* called only after all page requests, the last of which returned no
\* continuation token, with the prompt built from the complete record set
\* and the user's question; and the answer is sent only after the generator
\* returned, as the formatted generator text.
C16_StrictSequence ==
    \A c \in Cmds : kind[c] = "ai" =>
        /\ \A g \in At(c, "generate") :
              /\ \A i \in At(c, "scan") : i < g
              /\ Cardinality(At(c, "scan")) = Len(storePages)
              /\ log[c][g - 1] = <<"scan", Len(storePages) - 1>>
              /\ \A i \in At(c, "send") : g < i
        /\ Calls(c, "generate") = 1 =>
              /\ ~HasMore(response[c])
              /\ full_prompt[c] =
                    PromptHead \o SerializeItems(Flatten(storePages))
                        \o PromptTail \o QuestionOf(c)
        /\ pc[c] = "a_send" => reply_text[c] = Format(ai_response[c])
        /\ (Finished(c) /\ exc[c] = "none") =>
              /\ Calls(c, "generate") = 1
              /\ Calls(c, "send") = 1
              /\ log[c][Len(log[c])][1] = "send"
              /\ Shown(c) = Format(ai_response[c])

C16_Witness ==
    \E c \in Cmds :
        /\ kind[c] = "ai" /\ pc[c] = "done" /\ exc[c] = "none"
        /\ Len(storePages) >= 2 /\ Len(Flatten(storePages)) >= 1
        /\ Calls(c, "scan") = Len(storePages)
        /\ Shown(c) = ai_response[c]

\* The run of the command in slot c is over, and its pagination loop made no
\* request after the response without a continuation token: as many
\* requests as the store has pages when the fetch went through, fewer when a
\* request failed.
Ended(c) ==
    /\ pc[c] = "done"
    /\ kind[c] = "ai" =>
          IF FetchDone(c)
          THEN /\ Calls(c, "scan") = Len(storePages)
               /\ ~HasMore(response[c])
          ELSE /\ Calls(c, "scan") <= Len(storePages)
               /\ exc[c] = "StoreUnavailable"

\* C17: no command stays in progress for ever: time and again each command
\* is either not invoked or over, whatever calls failed, with a pagination
\* loop that stopped at the first response without a continuation token.  A
\* command that is over stays so, and makes no further request.
C17_EveryCommandTerminates ==
    \A c \in Cmds : []<>(pc[c] = "idle" \/ Ended(c))

C17_Witness ==
    /\ \A c \in Cmds : pc[c] = "done"
    /\ \E c \in Cmds :
          kind[c] = "ai" /\ Calls(c, "scan") >= 2 /\ Calls(c, "generate") = 1

\* C18: a hello_command does not give up the event loop between its refresh
\* and its read of item_count, so the count it reports is the one its own
\* refresh loaded, also when another hello_command refreshes the shared table
\* handle in between its steps.
C18_CountFromOwnRefresh ==
    \A c \in Cmds : kind[c] = "hello" =>
        /\ "reload" \notin yield_points[c]
        /\ pc[c] \in {"h_read", "h_edit"} => running = c
        /\ pc[c] = "h_read" => item_count = loaded[c]
        /\ (exc[c] = "none" /\ pc[c] \in {"h_edit", "done"}) =>
              total_rows[c] = loaded[c]
        /\ (exc[c] = "none" /\ pc[c] = "done") =>
              Shown(c) = HelloPart1 \o Digits(AuthorId(c)) \o HelloPart2
                            \o CurrentTime \o HelloPart3
                            \o Digits(loaded[c]) \o HelloPart4

C18_Witness ==
    \E c \in Cmds : \E d \in Cmds \ {c} :
        /\ kind[c] = "hello" /\ pc[c] = "done" /\ exc[c] = "none"
        /\ kind[d] = "hello" /\ pc[d] = "done" /\ exc[d] = "none"
        /\ loaded[c] # loaded[d]
        /\ item_count = loaded[d]

IsScan(e) == e[1] = "scan"

\* The ExclusiveStartKey of c's page requests, in the order they were made.
ScanKeys(c) == [i \in 1..Len(SelectSeq(log[c], IsScan)) |->
                   SelectSeq(log[c], IsScan)[i][2]]

====
